---- MODULE Spec2Model ----
(***************************************************************************)
(* Model of the cloud CLI (ygwyg/cloud-cli): the container detector's      *)
(* scaffold, the wrangler.jsonc merge engine and the command dispatcher.   *)
(*                                                                         *)
(* File contents are modelled by the parts the code reads and writes:      *)
(* wrangler.jsonc by its containers, durable_objects.bindings and          *)
(* migrations lists, src/index.ts by the list of classes it exports.       *)
(* Names are strings; generated names are built by concatenation as the    *)
(* code builds them.                                                       *)
(***************************************************************************)
EXTENDS Naturals, Sequences, FiniteSets, TLC

VARIABLES
    wranglerExists,  \* wrangler.jsonc exists in cwd
    config,          \* parsed content of wrangler.jsonc
    workerExists,    \* src/index.ts exists
    worker,          \* classes exported by src/index.ts, in file order, each
                     \* with its defaultPort literal
    generated,       \* lines of Dockerfile.generated, <<>> if no such file
    files,           \* the other files and directories of cwd that exist
    dockerfiles,     \* build-descriptor files present in cwd
    dockerfileText,  \* lines of the build-descriptor files present in cwd
    env,             \* the .env file of cwd: whether it exists, and its IMAGE line
    pc,              \* "idle", or "confirm" while scaffold awaits the prompt
    call,            \* the scaffold call in progress (opts, detection, names)
    last             \* the last finished operation: its inputs and its outcome

vars == <<wranglerExists, config, workerExists, worker, generated, files,
          dockerfiles, dockerfileText, env, pc, call, last>>

NULL == "null"

(***************************************************************************)
(* Bounds of the model.                                                    *)
(***************************************************************************)
MaxContainers == 2   \* merges stop growing the containers list beyond this
MaxMigrations == 2   \* merges stop growing the migrations list beyond this
MaxClasses == 3      \* calls stop adding bindings and worker classes beyond this

(***************************************************************************)
(* Generic helpers over sequences (Array.prototype.findIndex / some).      *)
(***************************************************************************)
Range(s) == {s[i] : i \in 1..Len(s)}

\* Array.prototype.findIndex, given the set of indices whose element matches:
\* the first of them, 0 when there is none (indices are 1-based)
FirstIndex(matching) ==
    IF matching = {} THEN 0
    ELSE CHOOSE i \in matching : \A j \in matching : i <= j

Includes(s, x) == \E i \in 1..Len(s) : s[i] = x

(***************************************************************************)
(* mergeWranglerConfig, in the three parts of its body.                    *)
(***************************************************************************)
BATCH_CAPACITY == 3

\* A descriptor document: `top` lists its top-level keys in document order,
\* each with its value; the keys the merge manages carry the value MANAGED and
\* have their content in the fields containers, bindings (of
\* durable_objects), migrations and flags (compatibility_flags); `comments`
\* are the comments of the jsonc text.
MANAGED == "(managed)"

TopKey(key, value) == [key |-> key, value |-> value]

HasKey(top, key) == \E i \in 1..Len(top) : top[i].key = key

\* `if (!existingConfig.k) existingConfig.k = ...`: a key that was missing is
\* added after the keys of the object
EnsureKey(top, key) == IF HasKey(top, key) THEN top ELSE Append(top, TopKey(key, MANAGED))

MergedTop(top) ==
    EnsureKey(EnsureKey(EnsureKey(EnsureKey(top, "containers"), "durable_objects"),
                        "migrations"), "compatibility_flags")

\* lines 641-646
EnsureNodejsCompat(flags) ==
    IF \E i \in 1..Len(flags) : flags[i] = "nodejs_compat" THEN flags
    ELSE Append(flags, "nodejs_compat")

\* jsonc-parser's parse returns the value of the document; its comments are
\* not part of the value
ParseJsonc(document) == [document EXCEPT !.comments = <<>>]

NewContainer(className, dockerfilePath, maxInstances) ==
    [class_name |-> className, image |-> dockerfilePath,
     max_instances |-> maxInstances, instance_type |-> "basic"]

UpsertContainer(containers, className, dockerfilePath, maxInstances) ==
    LET idx == FirstIndex({i \in 1..Len(containers) :
                              \/ containers[i].image = dockerfilePath
                              \/ containers[i].class_name = className})
        new == NewContainer(className, dockerfilePath, maxInstances)
    IN  IF idx > 0 THEN [containers EXCEPT ![idx] = new]
        ELSE Append(containers, new)

\* faulty variant: the binding is always appended
UpsertBindingAppend(bindings, className, bindingName) ==
    Append(bindings, [class_name |-> className, name |-> bindingName])

UpsertBinding(bindings, className, bindingName) ==
    LET idx == FirstIndex({i \in 1..Len(bindings) : bindings[i].class_name = className})
        new == [class_name |-> className, name |-> bindingName]
    IN  IF idx > 0 THEN [bindings EXCEPT ![idx] = new]
        ELSE Append(bindings, new)

ClassExistsInMigrations(migrations, className) ==
    \E i \in 1..Len(migrations) : Includes(migrations[i].new_sqlite_classes, className)

NewTag(migrations) == "v" \o ToString(Len(migrations) + 1)

\* faulty variant: the class is registered without looking for an earlier registration
AllocateMigrationNoCheck(migrations, className) ==
    IF Len(migrations) = 0
    THEN [threw |-> TRUE, migrations |-> migrations]
    ELSE LET n == Len(migrations) IN
         IF Len(migrations[n].new_sqlite_classes) >= BATCH_CAPACITY
         THEN [threw |-> FALSE,
               migrations |-> Append(migrations,
                   [new_sqlite_classes |-> <<className>>, tag |-> NewTag(migrations)])]
         ELSE [threw |-> FALSE,
               migrations |-> [migrations EXCEPT ![n].new_sqlite_classes =
                                   Append(@, className)]]

\* faulty variant: the capacity test is off by one (> instead of >=)
AllocateMigrationOffByOne(migrations, className) ==
    IF ClassExistsInMigrations(migrations, className)
    THEN [threw |-> FALSE, migrations |-> migrations]
    ELSE IF Len(migrations) = 0
    THEN [threw |-> TRUE, migrations |-> migrations]
    ELSE LET n == Len(migrations) IN
         IF Len(migrations[n].new_sqlite_classes) > BATCH_CAPACITY
         THEN [threw |-> FALSE,
               migrations |-> Append(migrations,
                   [new_sqlite_classes |-> <<className>>, tag |-> NewTag(migrations)])]
         ELSE [threw |-> FALSE,
               migrations |-> [migrations EXCEPT ![n].new_sqlite_classes =
                                   Append(@, className)]]

\* faulty variant: a full latest migration is replaced by the new one instead of kept
AllocateMigrationReplace(migrations, className) ==
    IF ClassExistsInMigrations(migrations, className)
    THEN [threw |-> FALSE, migrations |-> migrations]
    ELSE IF Len(migrations) = 0
    THEN [threw |-> TRUE, migrations |-> migrations]
    ELSE LET n == Len(migrations) IN
         IF Len(migrations[n].new_sqlite_classes) >= BATCH_CAPACITY
         THEN [threw |-> FALSE,
               migrations |-> [migrations EXCEPT ![n] =
                   [new_sqlite_classes |-> <<className>>, tag |-> NewTag(migrations)]]]
         ELSE [threw |-> FALSE,
               migrations |-> [migrations EXCEPT ![n].new_sqlite_classes =
                                   Append(@, className)]]

\* Lines 596-639.  With no migration in the list the code evaluates
\* opts.migrationTag, and neither opts nor ctx is a binding in scope of
\* mergeWranglerConfig: the evaluation raises a ReferenceError.
AllocateMigration(migrations, className) ==
    IF ClassExistsInMigrations(migrations, className)
    THEN [threw |-> FALSE, migrations |-> migrations]
    ELSE IF Len(migrations) = 0
    THEN [threw |-> TRUE, migrations |-> migrations]
    ELSE LET n == Len(migrations) IN
         IF Len(migrations[n].new_sqlite_classes) >= BATCH_CAPACITY
         THEN [threw |-> FALSE,
               migrations |-> Append(migrations,
                   [new_sqlite_classes |-> <<className>>, tag |-> NewTag(migrations)])]
         ELSE [threw |-> FALSE,
               migrations |-> [migrations EXCEPT ![n].new_sqlite_classes =
                                   Append(@, className)]]

\* faulty variant: the resource entry is written before the migrations are
\* looked at
MergeWranglerConfigWriteFirst(existingConfig, className, bindingName, dockerfilePath, maxInstances) ==
    LET m == AllocateMigration(existingConfig.migrations, className)
    IN  IF ~existingConfig.usable
        THEN [threw |-> TRUE, config |-> existingConfig]
        ELSE IF m.threw
        THEN [threw |-> TRUE,
              config |-> [ParseJsonc(existingConfig) EXCEPT
                  !.containers = UpsertContainer(@, className, dockerfilePath,
                                                 maxInstances),
                  !.top        = EnsureKey(@, "containers")]]
        ELSE [threw |-> FALSE,
              config |-> [ParseJsonc(existingConfig) EXCEPT
                  !.containers = UpsertContainer(@, className, dockerfilePath, maxInstances),
                  !.bindings   = UpsertBinding(@, className, bindingName),
                  !.migrations = m.migrations,
                  !.top        = MergedTop(@),
                  !.flags      = EnsureNodejsCompat(@)]]

\* The whole merge: the document is parsed, changed in memory and written
\* back with JSON.stringify (line 648), only when nothing was thrown.
\* Reading a property of an undefined parse result raises a TypeError (line 554).
MergeWranglerConfig(existingConfig, className, bindingName, dockerfilePath, maxInstances) ==
    LET m == AllocateMigration(existingConfig.migrations, className)
    IN  IF ~existingConfig.usable \/ m.threw
        THEN [threw |-> TRUE, config |-> existingConfig]
        ELSE [threw |-> FALSE,
              config |-> [ParseJsonc(existingConfig) EXCEPT
                  !.containers = UpsertContainer(@, className, dockerfilePath, maxInstances),
                  !.bindings   = UpsertBinding(@, className, bindingName),
                  !.migrations = m.migrations,
                  !.top        = MergedTop(@),
                  !.flags      = EnsureNodejsCompat(@)]]

(***************************************************************************)
(* Names.  The strings the code derives are tabulated on the inputs of the *)
(* model: image references, the --name values and the cwd base name.       *)
(***************************************************************************)
Images == {"nginx:alpine", "lib/my-app:1"}
CwdBaseName == "site"
DockerfileNames == <<"Dockerfile", "Containerfile", "dockerfile">>
CwdPrefix == "/w/"

\* image.split('/').pop().split(':')[0].replace(/[^a-zA-Z0-9-]/g, '-')
ProjectNameOfImage(image) ==
    CASE image = "nginx:alpine" -> "nginx"
      [] image = "lib/my-app:1" -> "my-app"

\* `${name.charAt(0).toUpperCase()}${name.slice(1).replace(/-/g, '')}Container`
BaseName(projectName) ==
    CASE projectName = "nginx"  -> "NginxContainer"
      [] projectName = "my-app" -> "MyappContainer"
      [] projectName = "app"    -> "AppContainer"
      [] projectName = "site"   -> "SiteContainer"

\* path.join(cwd, df) and path.relative(cwd, p) for a file directly in cwd
PathJoin(df) == CwdPrefix \o df

PathRelative(p) ==
    CHOOSE df \in Range(DockerfileNames) : PathJoin(df) = p

\* the class names of the model, as base and counter; counter 0 is no suffix
Bases == {"NginxContainer", "MyappContainer", "AppContainer", "SiteContainer",
          "Foo", "Legacy"}

Counter(n) == IF n = 0 THEN "" ELSE ToString(n)

\* base name and counter to class name, as generateUniqueClassName composes them
Compose == [p \in Bases \X (0..(MaxClasses + 1)) |-> p[1] \o Counter(p[2])]

KnownClassNames == {Compose[p] : p \in DOMAIN Compose}

Parts == [c \in KnownClassNames |-> CHOOSE p \in DOMAIN Compose : Compose[p] = c]

\* base.toUpperCase().replace('CONTAINER', '')
UpperStripped(base) ==
    CASE base = "NginxContainer" -> "NGINX"
      [] base = "MyappContainer" -> "MYAPP"
      [] base = "AppContainer"   -> "APP"
      [] base = "SiteContainer"  -> "SITE"
      [] base = "Foo"            -> "FOO"
      [] base = "Legacy"         -> "LEGACY"

BindingNames ==
    [c \in KnownClassNames |->
        UpperStripped(Parts[c][1]) \o Counter(Parts[c][2]) \o "_CONTAINER"]

\* `${className.toUpperCase().replace('CONTAINER', '')}_CONTAINER`
BindingName(className) == BindingNames[className]

\* the known class names of which each class name is a prefix
Extensions ==
    [c \in KnownClassNames |->
        {e \in KnownClassNames : \E n \in 0..(MaxClasses + 1) : e = c \o Counter(n)}]

\* existingCode.includes(`export class ${className}`): a substring test, so a
\* class whose name starts with className matches as well
DefinesClassText(workerClasses, className) ==
    \E i \in 1..Len(workerClasses) :
        workerClasses[i].class_name \in Extensions[className]

\* parseInt(opts.maxInstances || '10')
ParseMaxInstances(s) ==
    CASE s = NULL -> 10
      [] s = "10" -> 10
      [] s = "5"  -> 5

(***************************************************************************)
(* The working directory as one value, for the functions that read it.     *)
(***************************************************************************)
Dir == [wranglerExists |-> wranglerExists, config |-> config,
        workerExists |-> workerExists, worker |-> worker,
        generated |-> generated, files |-> files,
        dockerfileText |-> dockerfileText]

\* usable: parseJsonc returned an object (it returns undefined for a file
\* that is empty or holds no JSON value)
EmptyConfig ==
    [usable |-> TRUE, top |-> <<>>, flags |-> <<>>, comments |-> <<>>,
     containers |-> <<>>, bindings |-> <<>>, migrations |-> <<>>]

UnusableConfig == [EmptyConfig EXCEPT !.usable = FALSE]

TargetImage(image, dockerfilePath) ==
    IF image # NULL THEN "./Dockerfile.generated"
    ELSE IF dockerfilePath # NULL THEN PathRelative(dockerfilePath)
    ELSE "./Dockerfile"

\* the class name of the container found, NULL when there is none
FindExistingContainer(d, image, dockerfilePath) ==
    IF ~d.wranglerExists \/ ~d.config.usable THEN NULL
    ELSE LET targetImage == TargetImage(image, dockerfilePath)
             cs == d.config.containers
             idx == FirstIndex({i \in 1..Len(cs) :
                        \/ cs[i].image = targetImage
                        \/ cs[i].image = "./Dockerfile"
                        \/ (image # NULL /\ cs[i].image = "./Dockerfile.generated")})
         IN  IF idx = 0 THEN NULL ELSE d.config.containers[idx].class_name

ExistingClasses(d) ==
    (IF d.workerExists THEN {d.worker[i].class_name : i \in 1..Len(d.worker)} ELSE {})
    \cup (IF d.wranglerExists /\ d.config.usable
          THEN {d.config.containers[i].class_name : i \in 1..Len(d.config.containers)}
          ELSE {})

GenerateUniqueClassName(d, baseName) ==
    LET existing == ExistingClasses(d)
    IN  IF baseName \notin existing THEN baseName
        ELSE LET k == CHOOSE n \in 1..(Cardinality(existing) + 1) :
                          /\ (baseName \o ToString(n)) \notin existing
                          /\ \A m \in 1..(n-1) : (baseName \o ToString(m)) \in existing
             IN  baseName \o ToString(k)

\* scaffold, lines 249-272: the names of this call
ResolveNames(d, opts, detection) ==
    LET projectName ==
            IF opts.name # NULL THEN opts.name
            ELSE IF detection.image # NULL THEN ProjectNameOfImage(detection.image)
            ELSE CwdBaseName
        existingContainer ==
            FindExistingContainer(d, detection.image, detection.dockerfilePath)
        className ==
            IF existingContainer # NULL THEN existingContainer
            ELSE IF opts.class # NULL THEN opts.class
            ELSE GenerateUniqueClassName(d, BaseName(projectName))
    IN  [projectName |-> projectName, className |-> className,
         bindingName |-> BindingName(className),
         maxInstances |-> ParseMaxInstances(opts.maxInstances)]

\* faulty variant: only an existing descriptor triggers the confirmation
NeedsConfirmationWranglerOnly(d, opts) ==
    d.wranglerExists /\ ~opts.force /\ ~opts.noPrompt

\* scaffold, line 277: the confirmation gate
NeedsConfirmation(d, opts) ==
    (d.workerExists \/ d.wranglerExists) /\ ~opts.force /\ ~opts.noPrompt

(***************************************************************************)
(* ContainerDetector.detect: the evidence is the positional argument, the  *)
(* build-descriptor files, the other indicator files and the IMAGE= line   *)
(* of .env.  Confidence is in hundredths.                                  *)
(***************************************************************************)
\* faulty variant: a later signal does not raise a confidence already set
MaxKeepFirst(a, b) == IF a > 0 THEN a ELSE b

Max(a, b) == IF a >= b THEN a ELSE b

\* (arg.includes(':') || arg.includes('/')) && !path.extname(arg)
\* ("nginx:1.25" has the extension ".25", "./Dockerfile" has none)
IsImageReference(arg) ==
    CASE arg = "nginx:alpine" -> TRUE
      [] arg = "lib/my-app:1" -> TRUE
      [] arg = "./Dockerfile" -> TRUE
      [] arg = "nginx:1.25"   -> FALSE
      [] OTHER -> FALSE

ComposeFiles == {"docker-compose.yml", "docker-compose.yaml", "compose.yml", "compose.yaml"}

\* the compose file names in the order they are probed (line 208)
ComposeFileNames == <<"docker-compose.yml", "docker-compose.yaml", "compose.yml", "compose.yaml">>

\* the first compose file of the directory, NULL when it has none
FirstCompose(others) ==
    LET idx == FirstIndex({i \in 1..Len(ComposeFileNames) : ComposeFileNames[i] \in others})
    IN  IF idx = 0 THEN NULL ELSE ComposeFileNames[idx]

FirstDockerfile(present) ==
    LET idx == FirstIndex({i \in 1..Len(DockerfileNames) : DockerfileNames[i] \in present})
    IN  IF idx = 0 THEN NULL ELSE PathJoin(DockerfileNames[idx])

\* the .env file: imageLine is the text after "IMAGE=" on the first line that
\* matches /^IMAGE\s*=\s*(.+)$/m, NULL when no line matches
\* readable: fs.readFile of the file succeeds (it fails for an .env that is a
\* directory or that the user may not read; pathExists is true for both)
NoEnv == [exists |-> FALSE, readable |-> TRUE, imageLine |-> NULL]

\* an .env that exists and cannot be read
UnreadableEnv == [exists |-> TRUE, readable |-> FALSE, imageLine |-> NULL]

\* line 224: the read of .env is outside every try block, its error is the
\* error of detect
ReadEnvFails(e) == e.exists /\ ~e.readable

\* imageMatch[1].replace(/['"]/g, '')
StripQuotes(raw) ==
    CASE raw = "redis:7"   -> "redis:7"
      [] raw = "'redis:7'" -> "redis:7"

\* the image that lines 222-231 read from .env, NULL when they read none
EnvImage(e) ==
    IF e.exists /\ e.imageLine # NULL THEN StripQuotes(e.imageLine) ELSE NULL

Detect(arg, present, others, envImg) ==
    LET c1 == IF arg # NULL /\ IsImageReference(arg) THEN 95 ELSE 0
        img1 == IF c1 > 0 THEN arg ELSE NULL
        dfPath == FirstDockerfile(present)
        c2 == IF dfPath # NULL THEN Max(c1, 90) ELSE c1
        c3 == IF others \cap ComposeFiles # {} THEN Max(c2, 70) ELSE c2
        c4 == IF ".docker" \in others THEN Max(c3, 60) ELSE c3
        c5 == IF envImg # NULL THEN Max(c4, 80) ELSE c4
        img5 == IF envImg # NULL THEN envImg ELSE img1
        c6 == IF "manifest.json" \in others THEN Max(c5, 85) ELSE c5
        indicators ==
            (IF arg # NULL /\ IsImageReference(arg)
             THEN <<"Explicit image reference: " \o arg>> ELSE <<>>)
            \o (IF dfPath # NULL THEN <<"Found " \o PathRelative(dfPath)>> ELSE <<>>)
            \o (IF FirstCompose(others) # NULL
                THEN <<"Found " \o FirstCompose(others)>> ELSE <<>>)
            \o (IF ".docker" \in others THEN <<"Found .docker directory">> ELSE <<>>)
            \o (IF envImg # NULL THEN <<"Found IMAGE in .env: " \o envImg>> ELSE <<>>)
            \o (IF "manifest.json" \in others THEN <<"Found OCI manifest.json">> ELSE <<>>)
    IN  [found |-> c6 # 0, confidence |-> c6, image |-> img5, dockerfilePath |-> dfPath,
         indicators |-> indicators]

(***************************************************************************)
(* autoDetect over a list of registered detectors.  A detector is the      *)
(* container detector or another subclass of Detector; of the latter the   *)
(* model keeps the confidence its detect() reports on the directory        *)
(* (0: it returns null).  Confidences are in hundredths.                   *)
(***************************************************************************)
ContainerDetector == [id |-> "container", confidence |-> 0]

OtherDetector(id, confidence) == [id |-> id, confidence |-> confidence]

\* detector.detect(ctx, opts), lines 49-50
DetectBy(detector, arg, present, others, envImg) ==
    IF detector.id = "container"
    THEN LET r == Detect(arg, present, others, envImg)
         IN  [detector |-> detector.id, found |-> r.found, confidence |-> r.confidence,
              image |-> r.image, dockerfilePath |-> r.dockerfilePath]
    ELSE [detector |-> detector.id, found |-> detector.confidence # 0,
          confidence |-> detector.confidence, image |-> NULL, dockerfilePath |-> NULL]

\* faulty variant: the result of the first registered detector is dropped
CollectResultsSkipFirst(detectors, arg, present, others, envImg) ==
    LET rs == [i \in 1..Len(detectors) |->
                  DetectBy(detectors[i], arg, present, others, envImg)]
    IN  IF Len(detectors) = 2 /\ rs[2].found THEN <<rs[2]>> ELSE <<>>

\* lines 47-54: the non-null results, in registration order
RECURSIVE CollectResults(_, _, _, _, _)
CollectResults(detectors, arg, present, others, envImg) ==
    IF detectors = <<>> THEN <<>>
    ELSE LET r == DetectBy(Head(detectors), arg, present, others, envImg)
             rest == CollectResults(Tail(detectors), arg, present, others, envImg)
         IN  IF r.found THEN <<r>> \o rest ELSE rest

\* r goes behind every result whose confidence is not lower
InsertByConfidence(sorted, r) ==
    LET k == Cardinality({i \in 1..Len(sorted) : sorted[i].confidence >= r.confidence})
    IN  SubSeq(sorted, 1, k) \o <<r>> \o SubSeq(sorted, k + 1, Len(sorted))

\* results.sort((a, b) => b.confidence - a.confidence): Array.prototype.sort is
\* stable, results of equal confidence keep their order
RECURSIVE SortByConfidence(_)
SortByConfidence(results) ==
    IF results = <<>> THEN <<>>
    ELSE InsertByConfidence(SortByConfidence(SubSeq(results, 1, Len(results) - 1)),
                            results[Len(results)])

\* pairs of confidences one tenth apart whose difference in IEEE-754 double
\* arithmetic is 0.09999999999999998 (0.8 - 0.7 is 0.10000000000000009)
RoundedBelowTenth == {<<70, 60>>, <<90, 80>>, <<95, 85>>}

\* results[0].confidence - results[1].confidence < 0.1, on doubles
GapBelowTenth(a, b) ==
    \/ a - b < 10
    \/ (a - b = 10 /\ <<a, b>> \in RoundedBelowTenth)

\* faulty variant: the list prompt is issued in non-interactive mode as well
NeedsChoiceAlways(sorted, opts) ==
    /\ Len(sorted) > 1
    /\ GapBelowTenth(sorted[1].confidence, sorted[2].confidence)

\* lines 60-61: the list prompt is issued
NeedsChoice(sorted, opts) ==
    /\ Len(sorted) > 1
    /\ GapBelowTenth(sorted[1].confidence, sorted[2].confidence)
    /\ ~opts.noPrompt

NoResult == [detector |-> NULL, found |-> FALSE, confidence |-> 0,
             image |-> NULL, dockerfilePath |-> NULL]

\* lines 49-50: the await of a detect() that raises is not in a try block, so
\* autoDetect raises when the container detector is in the list and cannot
\* read .env
DetectRaises(detectors, e) ==
    /\ ReadEnvFails(e)
    /\ \E i \in 1..Len(detectors) : detectors[i].id = "container"

\* autoDetect up to its return or its prompt: the sorted results, whether the
\* prompt is issued, and the value returned when it is not
AutoDetect(detectors, arg, present, others, envImg, opts) ==
    LET sorted == SortByConfidence(CollectResults(detectors, arg, present, others, envImg))
    IN  [results |-> sorted,
         prompts |-> NeedsChoice(sorted, opts),
         result  |-> IF sorted = <<>> THEN NoResult ELSE sorted[1]]

(***************************************************************************)
(* analyzeDockerfile.  A build-descriptor is the sequence of its lines;    *)
(* what the code computes on a line is tabulated on the lines of the       *)
(* model.                                                                  *)
(***************************************************************************)
DEFAULT_PORT == 8080

NaN == 0

DockerfileLines ==
    {"FROM node:20", "EXPOSE 9000", "expose 3000", "EXPOSE $PORT", "EXPOSE  7000",
     "EXPOSE 80/tcp", "FROM nginx:alpine", "FROM lib/my-app:1", "FROM redis:7",
     "EXPOSE 8080"}

\* line.trim().toUpperCase().startsWith('EXPOSE ')
StartsWithExpose(line) ==
    line \in {"EXPOSE 9000", "expose 3000", "EXPOSE $PORT", "EXPOSE  7000",
              "EXPOSE 80/tcp", "EXPOSE 8080"}

\* parseInt(exposeLine.split(' ')[1]): the text between the first and the second
\* space, read as far as it has leading digits
ParseExposedPort(line) ==
    CASE line = "EXPOSE 9000"   -> 9000
      [] line = "expose 3000"   -> 3000
      [] line = "EXPOSE 8080"   -> 8080
      [] line = "EXPOSE 80/tcp" -> 80
      [] line = "EXPOSE $PORT"  -> NaN
      [] line = "EXPOSE  7000"  -> NaN

\* lines 703-715: the first EXPOSE line whose port parses decides
RECURSIVE AnalyzeDockerfile(_)
AnalyzeDockerfile(lines) ==
    IF lines = <<>> THEN DEFAULT_PORT
    ELSE IF StartsWithExpose(Head(lines)) /\ ParseExposedPort(Head(lines)) # NaN
    THEN ParseExposedPort(Head(lines))
    ELSE AnalyzeDockerfile(Tail(lines))

PlainDockerfile == <<"FROM node:20">>

\* lines 301-303: the text of Dockerfile.generated
GeneratedDockerfile(image) == <<"FROM " \o image, "EXPOSE 8080">>

\* containerInfo.port, lines 297-313
ContainerPort(d, detection) ==
    IF detection.image # NULL /\ detection.dockerfilePath = NULL THEN DEFAULT_PORT
    ELSE IF detection.dockerfilePath # NULL THEN AnalyzeDockerfile(d.dockerfileText)
    ELSE DEFAULT_PORT

(***************************************************************************)
(* scaffold, lines 296-373: everything the call writes.                    *)
(***************************************************************************)
FinalDockerfilePath(detection) ==
    IF detection.image # NULL /\ detection.dockerfilePath = NULL
    THEN "./Dockerfile.generated"
    ELSE IF detection.dockerfilePath # NULL
    THEN "./" \o PathRelative(detection.dockerfilePath)
    ELSE NULL

\* updateWorkerCode: the class block goes after the leading import lines,
\* before every class already in the file
UpdateWorkerCode(workerClasses, className, port) ==
    IF DefinesClassText(workerClasses, className) THEN workerClasses
    ELSE <<[class_name |-> className, port |-> port]>> \o workerClasses

\* generateWorkerCode: a stub that defines the one class
GenerateWorkerCode(className, port) == <<[class_name |-> className, port |-> port]>>

\* getSmartMigrationTag: "v10" for a directory that looks like an existing
\* project, "v1" otherwise
GetSmartMigrationTag(d) ==
    IF (d.workerExists /\ "package.json" \in d.files) \/ "node_modules" \in d.files
    THEN "v10" ELSE "v1"

\* new Date().toISOString().split('T')[0] on the day of the run
Today == "2025-01-01"

\* the top-level keys of a generated descriptor, in the order of the literal
GeneratedTop(projectName) ==
    <<TopKey("name", projectName), TopKey("main", "src/index.ts"),
      TopKey("compatibility_date", Today), TopKey("compatibility_flags", MANAGED),
      TopKey("observability", "{enabled: true}"), TopKey("containers", MANAGED),
      TopKey("durable_objects", MANAGED), TopKey("migrations", MANAGED)>>

\* faulty variant: the fresh descriptor is written without a migration
GenerateWranglerConfigNoMigration(projectName, className, bindingName, dockerfilePath, maxInstances) ==
    [usable |-> TRUE,
     top |-> GeneratedTop(projectName), flags |-> <<"nodejs_compat">>, comments |-> <<>>,
     containers |-> <<NewContainer(className, dockerfilePath, maxInstances)>>,
     bindings   |-> <<[class_name |-> className, name |-> bindingName]>>,
     migrations |-> <<>>]

GenerateWranglerConfig(projectName, className, bindingName, dockerfilePath, maxInstances) ==
    [usable |-> TRUE,
     top |-> GeneratedTop(projectName), flags |-> <<"nodejs_compat">>, comments |-> <<>>,
     containers |-> <<NewContainer(className, dockerfilePath, maxInstances)>>,
     bindings   |-> <<[class_name |-> className, name |-> bindingName]>>,
     migrations |-> <<[new_sqlite_classes |-> <<className>>, tag |-> "v1"]>>]

CompanionFiles == {"tsconfig.json", "package.json", ".cfignore"}

\* the directory and the outcome after the writing part of scaffold
ScaffoldWrite(d, opts, detection, names) ==
    LET final == FinalDockerfilePath(detection)
        port == ContainerPort(d, detection)
        d1 == [d EXCEPT
                 !.generated = IF detection.image # NULL /\ detection.dockerfilePath = NULL
                               THEN GeneratedDockerfile(detection.image) ELSE @,
                 !.files = @ \cup {"src"}]
        d2 == [d1 EXCEPT
                 !.workerExists = TRUE,
                 !.worker = IF d.workerExists
                            THEN UpdateWorkerCode(@, names.className, port)
                            ELSE GenerateWorkerCode(names.className, port)]
        m  == MergeWranglerConfig(d.config, names.className, names.bindingName,
                                  final, names.maxInstances)
    IN  IF d.wranglerExists /\ m.threw
        THEN [outcome |-> "threw", dir |-> [d2 EXCEPT !.config = m.config]]
        ELSE [outcome |-> "ok",
              dir |-> [d2 EXCEPT
                 !.wranglerExists = TRUE,
                 !.config = IF d.wranglerExists THEN m.config
                            ELSE GenerateWranglerConfig(names.projectName,
                                                        names.className, names.bindingName,
                                                        final, names.maxInstances),
                 !.files = @ \cup CompanionFiles]]

\* the whole of scaffold for a given answer to the confirmation prompt
Scaffold(d, opts, detection, proceed) ==
    IF NeedsConfirmation(d, opts) /\ ~proceed
    THEN [outcome |-> "declined", dir |-> d]
    ELSE ScaffoldWrite(d, opts, detection, ResolveNames(d, opts, detection))

(***************************************************************************)
(* The command line.  commander stores a negatable option --no-prompt      *)
(* under the key `prompt` (true unless the flag is given); the key         *)
(* `noPrompt` that autoDetect and scaffold read is set only by a           *)
(* cf.config file, through Object.assign(opts, ctx.config).                *)
(***************************************************************************)
ParseOpts(flags, cfg) ==
    [name |-> flags.name, class |-> flags.class,
     maxInstances |-> flags.maxInstances, migrationTag |-> flags.migrationTag,
     force |-> flags.force,
     prompt |-> ~flags.noPromptFlag,
     noPrompt |-> cfg.noPrompt,
     type |-> flags.type, detect |-> flags.detect, plan |-> flags.plan,
     ship |-> flags.ship]

\* the command lines of the model: naming overrides with the overwrite forced,
\* the prompt-related options alone, and the migration tag override
MkFlags(name, class, tag, force, noPromptFlag) ==
    [name |-> name, class |-> class, maxInstances |-> "10", migrationTag |-> tag,
     force |-> force, noPromptFlag |-> noPromptFlag,
     type |-> NULL, detect |-> FALSE, plan |-> FALSE, ship |-> FALSE]

Targets == {NULL} \cup Images

Plain == [noPrompt |-> FALSE]

CliInputs ==
    {[target |-> t, flags |-> MkFlags(n, c, NULL, TRUE, FALSE), cfg |-> Plain] :
        t \in {NULL, "nginx:alpine"}, n \in {NULL, "app"}, c \in {NULL, "Foo"}}
    \cup
    {[target |-> "lib/my-app:1", flags |-> MkFlags(NULL, NULL, NULL, TRUE, FALSE),
      cfg |-> Plain]}
    \cup
    {[target |-> t, flags |-> MkFlags(NULL, NULL, NULL, FALSE, np), cfg |-> [noPrompt |-> cn]] :
        t \in {NULL, "nginx:alpine"}, np \in BOOLEAN, cn \in BOOLEAN}
    \cup
    {[target |-> t, flags |-> MkFlags(NULL, c, "v4", TRUE, FALSE), cfg |-> Plain] :
        t \in {NULL, "nginx:alpine"}, c \in {NULL, "Foo"}}

NoOpts == [name |-> NULL, class |-> NULL, maxInstances |-> NULL, migrationTag |-> NULL,
           force |-> FALSE, prompt |-> TRUE, noPrompt |-> FALSE,
           type |-> NULL, detect |-> FALSE, plan |-> FALSE, ship |-> FALSE]
NoDetection == [found |-> FALSE, confidence |-> 0, image |-> NULL, dockerfilePath |-> NULL]
NoNames == [projectName |-> NULL, className |-> NULL, bindingName |-> NULL,
            maxInstances |-> 0]
NoCall == [opts |-> NoOpts, detection |-> NoDetection]
\* the options that decide what scaffold writes
Overrides(opts) ==
    [name |-> opts.name, class |-> opts.class, maxInstances |-> opts.maxInstances,
     migrationTag |-> opts.migrationTag]

\* options with the given overrides and the overwrite forced
Forced(overrides) ==
    [name |-> overrides.name, class |-> overrides.class,
     maxInstances |-> overrides.maxInstances, migrationTag |-> overrides.migrationTag,
     force |-> TRUE, prompt |-> TRUE, noPrompt |-> FALSE,
     type |-> NULL, detect |-> FALSE, plan |-> FALSE, ship |-> FALSE]

\* the options that select what the run does
Mode(opts) ==
    [type |-> opts.type, detect |-> opts.detect, plan |-> opts.plan, ship |-> opts.ship]

\* registered: the class was in a migration of the descriptor when the operation began
\* exit: the exit status of the process, <<>> while it has not exited
\* steps: the external steps of deploy that have exited, with their exit codes
\* shipSuccess: the value deploy resolved to, <<>> while it has not
NoLast == [op |-> "none", outcome |-> "none", overrides |-> Overrides(NoOpts),
           detection |-> NoDetection, names |-> NoNames, path |-> NULL,
           registered |-> FALSE, mode |-> Mode(NoOpts), exit |-> <<>>,
           steps |-> <<>>, shipSuccess |-> <<>>]

(***************************************************************************)
(* Initial working directories: a fresh one, and hand-authored ones.       *)
(***************************************************************************)
\* the top-level keys of the hand-authored descriptors
HandTop ==
    <<TopKey("name", CwdBaseName), TopKey("containers", MANAGED),
      TopKey("durable_objects", MANAGED), TopKey("migrations", MANAGED)>>

Entry(className, image) == NewContainer(className, image, 10)
Bind(className) == [class_name |-> className, name |-> BindingName(className)]
Mig(tag, classes) == [new_sqlite_classes |-> classes, tag |-> tag]

InitConfigs ==
    { EmptyConfig,
      [usable |-> TRUE, top |-> HandTop, flags |-> <<>>, comments |-> <<>>,
       containers |-> <<Entry("Foo", "./Containerfile")>>,
       bindings   |-> <<Bind("Foo")>>,
       migrations |-> <<Mig("v1", <<"Foo">>)>>],
      [usable |-> TRUE, top |-> HandTop, flags |-> <<>>, comments |-> <<>>,
       containers |-> <<Entry("Legacy", "./Containerfile"),
                                         Entry("AppContainer", "./Dockerfile.generated")>>,
       bindings   |-> <<Bind("Legacy"), Bind("AppContainer")>>,
       migrations |-> <<Mig("v1", <<"Legacy", "AppContainer">>)>>],
      [usable |-> TRUE, top |-> HandTop, flags |-> <<>>, comments |-> <<>>,
       containers |-> <<Entry("Legacy", "./Dockerfile")>>,
       bindings   |-> <<Bind("Legacy")>>,
       migrations |-> <<Mig("v1", <<"Legacy", "Old1", "Old2">>)>>],
      [usable |-> TRUE, top |-> HandTop, flags |-> <<>>, comments |-> <<>>,
       containers |-> <<Entry("Legacy", "./dockerfile")>>,
       bindings   |-> <<>>,
       migrations |-> <<Mig("v1", <<"Legacy">>), Mig("v2", <<>>)>>] }

FreshDir ==
    [wranglerExists |-> FALSE, config |-> EmptyConfig, workerExists |-> FALSE,
     worker |-> <<>>, generated |-> <<>>, files |-> {},
     dockerfileText |-> PlainDockerfile]

\* a hand-written worker without a descriptor
WorkerOnlyDir ==
    [FreshDir EXCEPT !.workerExists = TRUE, !.worker = <<[class_name |-> "Legacy", port |-> DEFAULT_PORT]>>,
                     !.files = {"src", "package.json"}]

EstablishedDir(c) ==
    [WorkerOnlyDir EXCEPT !.wranglerExists = TRUE, !.config = c]

\* the build-descriptor files a directory holds, by the source refs of its
\* descriptor
DockerfilesFor(c) ==
    {df \in Range(DockerfileNames) :
        \E i \in 1..Len(c.containers) : c.containers[i].image = "./" \o df}

InitStates ==
    {[dir |-> FreshDir, dockerfiles |-> dfs] :
        dfs \in {{}, {"Dockerfile"}, {"Containerfile"}, {"dockerfile"}}}
    \cup {[dir |-> WorkerOnlyDir, dockerfiles |-> dfs] : dfs \in {{}, {"Dockerfile"}}}
    \cup {[dir |-> EstablishedDir(EmptyConfig), dockerfiles |-> dfs] :
            dfs \in {{}, {"Containerfile"}}}
    \cup {[dir |-> EstablishedDir(c), dockerfiles |-> DockerfilesFor(c)] :
            c \in InitConfigs \ {EmptyConfig}}

SetDir(d) ==
    /\ wranglerExists' = d.wranglerExists
    /\ config' = d.config
    /\ workerExists' = d.workerExists
    /\ worker' = d.worker
    /\ generated' = d.generated
    /\ files' = d.files

WithinBounds(d) ==
    /\ Len(d.config.containers) <= MaxContainers
    /\ Len(d.config.migrations) <= MaxMigrations
    /\ Len(d.config.bindings) <= MaxClasses
    /\ Len(d.worker) <= MaxClasses

Init ==
    /\ \E s \in InitStates :
        /\ wranglerExists = s.dir.wranglerExists
        /\ config = s.dir.config
        /\ workerExists = s.dir.workerExists
        /\ worker = s.dir.worker
        /\ generated = s.dir.generated
        /\ files = s.dir.files
        /\ dockerfiles = s.dockerfiles
        /\ dockerfileText = s.dir.dockerfileText
    /\ env = NoEnv
    /\ pc = "idle"
    /\ call = NoCall
    /\ last = NoLast

EXIT_SUCCESS == 0
EXIT_PARTIAL == 2
EXIT_USAGE == 64
EXIT_CONFIG == 65

\* part_000 line 38
RegisteredDetectors == <<ContainerDetector>>

\* detectors.find(d => d.id === opts.type) finds one
IsRegistered(type) ==
    \E i \in 1..Len(RegisteredDetectors) : RegisteredDetectors[i].id = type

\* result.metadata and result.confidence of a detection result
Detection(r) ==
    [found |-> r.found, confidence |-> r.confidence, image |-> r.image,
     dockerfilePath |-> r.dockerfilePath]

\* faulty variant: the error of scaffold is swallowed
ScaffoldExitSwallowed(outcome) ==
    CASE outcome = "ok"       -> EXIT_SUCCESS
      [] outcome = "threw"    -> EXIT_SUCCESS
      [] outcome = "declined" -> EXIT_CONFIG

\* the exit status when scaffold returned and deploy is not run: a thrown error
\* reaches the catch block (line 108), a null result line 84
ScaffoldExit(outcome) ==
    CASE outcome = "ok"       -> EXIT_SUCCESS
      [] outcome = "threw"    -> EXIT_CONFIG
      [] outcome = "declined" -> EXIT_CONFIG

\* scaffold has run to its end (or thrown) from directory d; with --ship and a
\* scaffold result, deploy has spawned the dependency install
Finish(d, opts, detection, proceed) ==
    LET r == Scaffold(d, opts, detection, proceed)
        deploys == r.outcome = "ok" /\ opts.ship
    IN  /\ WithinBounds(r.dir)
        /\ SetDir(r.dir)
        /\ pc' = IF deploys THEN "install" ELSE "idle"
        /\ call' = NoCall
        /\ last' = [op |-> "scaffold", outcome |-> r.outcome,
                    mode |-> Mode(opts),
                    exit |-> IF deploys THEN <<>> ELSE <<ScaffoldExit(r.outcome)>>,
                    steps |-> <<>>, shipSuccess |-> <<>>,
                    overrides |-> Overrides(opts),
                    detection |-> detection,
                    names |-> IF r.outcome = "declined" THEN NoNames
                              ELSE ResolveNames(d, opts, detection),
                    path |-> FinalDockerfilePath(detection),
                    registered |->
                        /\ r.outcome # "declined"
                        /\ d.wranglerExists
                        /\ ClassExistsInMigrations(d.config.migrations,
                               ResolveNames(d, opts, detection).className)]

\* faulty variant: with --ship the run goes on to scaffold
ReturnsBeforeScaffoldUnlessShip(opts) == (opts.detect \/ opts.plan) /\ ~opts.ship

\* detection-only mode and plan mode return before scaffold (lines 66-76)
ReturnsBeforeScaffold(opts) == opts.detect \/ opts.plan

\* main's action handler, up to the confirmation prompt of scaffold if it is
\* issued, to the spawn of the first external step if deploy is run, and to the
\* end of the run otherwise.  With the one registered detector autoDetect
\* never has two results and never issues its list prompt.
Run(target, flags, cfg) ==
    /\ pc = "idle"
    /\ LET opts == ParseOpts(flags, cfg)
           forced == opts.type # NULL /\ IsRegistered(opts.type)
           detection ==
               Detection(IF forced
                         THEN DetectBy(ContainerDetector, target, dockerfiles, files,
                                       EnvImage(env))
                         ELSE AutoDetect(RegisteredDetectors, target, dockerfiles, files,
                                         EnvImage(env), opts).result)
       IN  IF DetectRaises(RegisteredDetectors, env)
           THEN /\ last' = [NoLast EXCEPT
                              !.op = "run", !.outcome = "detectthrew",
                              !.mode = Mode(opts), !.exit = <<EXIT_CONFIG>>]
                /\ UNCHANGED <<wranglerExists, config, workerExists, worker,
                               generated, files, pc, call>>
           ELSE IF ~detection.found
           THEN /\ last' = [NoLast EXCEPT
                              !.op = "run", !.outcome = "nodetect", !.mode = Mode(opts),
                              !.exit = <<IF forced THEN EXIT_CONFIG ELSE EXIT_USAGE>>]
                /\ UNCHANGED <<wranglerExists, config, workerExists, worker,
                               generated, files, pc, call>>
           ELSE IF ReturnsBeforeScaffold(opts)
           THEN /\ last' = [NoLast EXCEPT
                              !.op = "run",
                              !.outcome = IF opts.detect THEN "detected" ELSE "planned",
                              !.mode = Mode(opts), !.detection = detection,
                              !.exit = <<EXIT_SUCCESS>>]
                /\ UNCHANGED <<wranglerExists, config, workerExists, worker,
                               generated, files, pc, call>>
           ELSE IF NeedsConfirmation(Dir, opts)
           THEN /\ pc' = "confirm"
                /\ call' = [opts |-> opts, detection |-> detection]
                /\ UNCHANGED <<wranglerExists, config, workerExists, worker,
                               generated, files, last>>
           ELSE Finish(Dir, opts, detection, TRUE)
    /\ UNCHANGED <<dockerfiles, dockerfileText, env>>

\* the user answers the confirmation prompt and scaffold continues
Answer(proceed) ==
    /\ pc = "confirm"
    /\ Finish(Dir, call.opts, call.detection, proceed)
    /\ UNCHANGED <<dockerfiles, dockerfileText, env>>

(***************************************************************************)
(* deploy: the close handlers of the three spawned processes.              *)
(***************************************************************************)
StepCodes == {0, 1}

Exited(step, code) == [step |-> step, code |-> code]

\* faulty variant: type generation is started whatever the install returned
InstallExitContinues(code) ==
    /\ pc = "install"
    /\ pc' = "types"
    /\ last' = [last EXCEPT !.steps = Append(@, Exited("install", code))]
    /\ UNCHANGED <<wranglerExists, config, workerExists, worker, generated, files,
                   dockerfiles, dockerfileText, env, call>>

\* npm install has exited (lines 662-673)
InstallExit(code) ==
    /\ pc = "install"
    /\ IF code # 0
       THEN /\ pc' = "idle"
            /\ last' = [last EXCEPT !.steps = Append(@, Exited("install", code)),
                                    !.shipSuccess = <<FALSE>>,
                                    !.exit = <<EXIT_PARTIAL>>]
       ELSE /\ pc' = "types"
            /\ last' = [last EXCEPT !.steps = Append(@, Exited("install", code))]
    /\ UNCHANGED <<wranglerExists, config, workerExists, worker, generated, files,
                   dockerfiles, dockerfileText, env, call>>

\* faulty variant: a failed type generation ends the sequence
TypesExitFatal(code) ==
    /\ pc = "types"
    /\ IF code # 0
       THEN /\ pc' = "idle"
            /\ last' = [last EXCEPT !.steps = Append(@, Exited("types", code)),
                                    !.shipSuccess = <<FALSE>>,
                                    !.exit = <<EXIT_PARTIAL>>]
       ELSE /\ pc' = "deploy"
            /\ last' = [last EXCEPT !.steps = Append(@, Exited("types", code))]
    /\ UNCHANGED <<wranglerExists, config, workerExists, worker, generated, files,
                   dockerfiles, dockerfileText, env, call>>

\* npx wrangler types has exited (lines 675-682)
TypesExit(code) ==
    /\ pc = "types"
    /\ pc' = "deploy"
    /\ last' = [last EXCEPT !.steps = Append(@, Exited("types", code))]
    /\ UNCHANGED <<wranglerExists, config, workerExists, worker, generated, files,
                   dockerfiles, dockerfileText, env, call>>

\* npx wrangler deploy has exited (lines 684-692); main exits (lines 91-95)
DeployExit(code) ==
    /\ pc = "deploy"
    /\ pc' = "idle"
    /\ last' = [last EXCEPT !.steps = Append(@, Exited("deploy", code)),
                            !.shipSuccess = <<code = 0>>,
                            !.exit = <<IF code = 0 THEN EXIT_SUCCESS ELSE EXIT_PARTIAL>>]
    /\ UNCHANGED <<wranglerExists, config, workerExists, worker, generated, files,
                   dockerfiles, dockerfileText, env, call>>

Next ==
    \/ \E c \in CliInputs : Run(c.target, c.flags, c.cfg)
    \/ \E proceed \in BOOLEAN : Answer(proceed)

Spec == Init /\ [][Next]_vars

(***************************************************************************)
(* The merge engine alone: mergeWranglerConfig called on an existing       *)
(* descriptor with arbitrary class names and source refs.                  *)
(***************************************************************************)
MergeClasses == {"Foo", "Legacy", "AppContainer", "SiteContainer"}
MergePaths == {"./Containerfile", "./Dockerfile.generated"}
\* the merges of the model: every class and source ref with the default
\* instance count, and one class with another count as well
MergeInputs ==
    {[className |-> c, dockerfilePath |-> p, maxInstances |-> 10] :
        c \in MergeClasses, p \in MergePaths}
    \cup {[className |-> "Foo", dockerfilePath |-> "./Containerfile", maxInstances |-> 5]}

\* a hand-authored jsonc document with comments, a key of its own, and
\* compatibility flags of its own
CommentedConfig ==
    [usable |-> TRUE,
     top |-> <<TopKey("name", CwdBaseName), TopKey("compatibility_flags", MANAGED),
               TopKey("vars", "{MODE: prod}"), TopKey("durable_objects", MANAGED),
               TopKey("migrations", MANAGED)>>,
     flags |-> <<"nodejs_als">>,
     comments |-> <<"// production worker", "/* do not reorder */">>,
     containers |-> <<>>,
     bindings   |-> <<Bind("Legacy")>>,
     migrations |-> <<Mig("v1", <<"Legacy">>)>>]

InitMergeConfigs ==
    InitConfigs
    \cup {[usable |-> TRUE, top |-> HandTop, flags |-> <<>>, comments |-> <<>>,
       containers |-> <<Entry("Legacy", "./Dockerfile")>>,
           bindings   |-> <<Bind("Legacy")>>,
           migrations |-> <<Mig("v4", <<"Legacy", "Old1", "Old2", "Old3">>)>>],
          [usable |-> TRUE, top |-> HandTop, flags |-> <<>>, comments |-> <<>>,
       containers |-> <<Entry("Legacy", "./Dockerfile")>>,
           bindings   |-> <<Bind("Legacy")>>,
           migrations |-> <<Mig("v2", <<"Legacy", "Old1", "Old2">>)>>],
          CommentedConfig}

InitMerge ==
    /\ wranglerExists = TRUE
    /\ config \in InitMergeConfigs
    /\ workerExists = FALSE
    /\ worker = <<>>
    /\ generated = <<>>
    /\ files = {}
    /\ dockerfiles = {}
    /\ dockerfileText = PlainDockerfile
    /\ env = NoEnv
    /\ pc = "idle"
    /\ call = NoCall
    /\ last = NoLast

MergeCall(className, dockerfilePath, maxInstances) ==
    LET r == MergeWranglerConfig(config, className, BindingName(className),
                                 dockerfilePath, maxInstances)
    IN  /\ WithinBounds([Dir EXCEPT !.config = r.config])
        /\ config' = r.config
        /\ last' = [NoLast EXCEPT
                      !.op = "merge",
                      !.outcome = IF r.threw THEN "threw" ELSE "ok",
                      !.names = [NoNames EXCEPT !.className = className,
                                                !.bindingName = BindingName(className),
                                                !.maxInstances = maxInstances],
                      !.path = dockerfilePath,
                      !.registered = ClassExistsInMigrations(config.migrations, className)]
        /\ UNCHANGED <<wranglerExists, workerExists, worker, generated, files,
                       dockerfiles, dockerfileText, env, pc, call>>

NextMerge ==
    \E m \in MergeInputs : MergeCall(m.className, m.dockerfilePath, m.maxInstances)

SpecMerge == InitMerge /\ [][NextMerge]_vars

(***************************************************************************)
(* Calls of detect and autoDetect on directories that differ in the        *)
(* signals present.                                                        *)
(***************************************************************************)
\* the evidence of the model: directories that differ in the signals present
EnvFiles ==
    {NoEnv, [exists |-> TRUE, readable |-> TRUE, imageLine |-> NULL],
     [exists |-> TRUE, readable |-> TRUE, imageLine |-> "'redis:7'"],
     UnreadableEnv}

EvidenceDockerfiles == {{}, {"Containerfile", "dockerfile"}}

EvidenceOthers == {{}, {"compose.yaml", "docker-compose.yaml"}, {"manifest.json", ".docker"}}

DetectArgs == {NULL, "nginx:alpine", "nginx:1.25"}

OtherConfidences == {0, 80, 90}

DetectorLists ==
    {<<ContainerDetector>>}
    \cup {<<ContainerDetector, OtherDetector("static", c)>> : c \in OtherConfidences}
    \cup {<<OtherDetector("static", c), ContainerDetector>> : c \in OtherConfidences}
    \cup {<<OtherDetector("static", 0), OtherDetector("node", 0)>>,
          <<OtherDetector("static", 90), OtherDetector("node", 90)>>,
          <<OtherDetector("static", 90), OtherDetector("node", 80)>>,
          <<OtherDetector("static", 80), OtherDetector("node", 90)>>}

InitDetect ==
    /\ wranglerExists = FALSE
    /\ config = EmptyConfig
    /\ workerExists = FALSE
    /\ worker = <<>>
    /\ generated = <<>>
    /\ files \in EvidenceOthers
    /\ dockerfiles \in EvidenceDockerfiles
    /\ dockerfileText = PlainDockerfile
    /\ env \in EnvFiles
    /\ pc = "idle"
    /\ call = NoCall
    /\ last = NoLast

\* ContainerDetector.detect called on the directory
DetectCall(arg) ==
    /\ pc = "idle"
    /\ last' = IF ReadEnvFails(env)
               THEN [op |-> "detect-raised", arg |-> arg]
               ELSE [op |-> "detect", arg |-> arg,
                     result |-> DetectBy(ContainerDetector, arg, dockerfiles, files,
                                         EnvImage(env)),
                     indicators |-> Detect(arg, dockerfiles, files,
                                           EnvImage(env)).indicators]
    /\ UNCHANGED <<wranglerExists, config, workerExists, worker, generated, files,
                   dockerfiles, dockerfileText, env, pc, call>>

\* autoDetect called on the directory, up to its return or its list prompt
AutoDetectCall(detectors, arg, noPrompt) ==
    /\ pc = "idle"
    /\ LET opts == [NoOpts EXCEPT !.noPrompt = noPrompt]
           r == AutoDetect(detectors, arg, dockerfiles, files, EnvImage(env), opts)
       IN  IF DetectRaises(detectors, env)
           THEN /\ pc' = "idle"
                /\ call' = call
                /\ last' = [op |-> "autodetect-raised", detectors |-> detectors,
                            arg |-> arg, noPrompt |-> noPrompt]
           ELSE IF r.prompts
           THEN /\ pc' = "choose"
                /\ call' = [detectors |-> detectors, arg |-> arg, noPrompt |-> noPrompt,
                            results |-> r.results]
                /\ last' = NoLast
           ELSE /\ pc' = "idle"
                /\ call' = call
                /\ last' = [op |-> "autodetect", detectors |-> detectors, arg |-> arg,
                            noPrompt |-> noPrompt, results |-> r.results,
                            prompted |-> FALSE, result |-> r.result]
    /\ UNCHANGED <<wranglerExists, config, workerExists, worker, generated, files,
                   dockerfiles, dockerfileText, env>>

\* the user picks one entry of the list prompt (lines 70-77)
Select(i) ==
    /\ pc = "choose"
    /\ i \in 1..Len(call.results)
    /\ pc' = "idle"
    /\ call' = NoCall
    /\ last' = [op |-> "autodetect", detectors |-> call.detectors, arg |-> call.arg,
                noPrompt |-> call.noPrompt, results |-> call.results,
                prompted |-> TRUE, result |-> call.results[i]]
    /\ UNCHANGED <<wranglerExists, config, workerExists, worker, generated, files,
                   dockerfiles, dockerfileText, env>>

NextDetect ==
    \/ \E arg \in DetectArgs : DetectCall(arg)
    \/ \E ds \in DetectorLists, arg \in DetectArgs, np \in BOOLEAN :
           AutoDetectCall(ds, arg, np)
    \/ \E i \in 1..2 : Select(i)

SpecDetect == InitDetect /\ [][NextDetect]_vars

(***************************************************************************)
(* Scaffolds of a local build-descriptor, over build-descriptors that      *)
(* differ in their EXPOSE lines.                                           *)
(***************************************************************************)
PortLines ==
    {"FROM node:20", "EXPOSE 9000", "expose 3000", "EXPOSE $PORT", "EXPOSE  7000",
     "EXPOSE 80/tcp"}

PortTexts == {<<l>> : l \in PortLines} \cup {<<l, m>> : l \in PortLines, m \in PortLines}

PortInputs ==
    {[target |-> NULL, flags |-> MkFlags(NULL, NULL, NULL, f, FALSE), cfg |-> Plain] :
        f \in BOOLEAN}

InitPort ==
    /\ \E d \in {FreshDir, WorkerOnlyDir} :
        /\ wranglerExists = d.wranglerExists
        /\ config = d.config
        /\ workerExists = d.workerExists
        /\ worker = d.worker
        /\ generated = d.generated
        /\ files = d.files
    /\ dockerfiles \in {{"Dockerfile"}, {"Containerfile"}}
    /\ dockerfileText \in PortTexts
    /\ env = NoEnv
    /\ pc = "idle"
    /\ call = NoCall
    /\ last = NoLast

NextPort ==
    \/ \E c \in PortInputs : Run(c.target, c.flags, c.cfg)
    \/ \E proceed \in BOOLEAN : Answer(proceed)

SpecPort == InitPort /\ [][NextPort]_vars

(***************************************************************************)
(* One invocation of the command, with the options that select what it     *)
(* does, from each of the initial directories and from one whose           *)
(* descriptor does not parse.                                              *)
(***************************************************************************)
MkMainFlags(type, detect, plan, ship, force) ==
    [MkFlags(NULL, NULL, NULL, force, FALSE) EXCEPT
        !.type = type, !.detect = detect, !.plan = plan, !.ship = ship]

MainModes == {<<FALSE, FALSE>>, <<TRUE, FALSE>>, <<FALSE, TRUE>>}

MainInputs ==
    {[target |-> t, flags |-> MkMainFlags(ty, m[1], m[2], sh, f), cfg |-> Plain] :
        t \in {NULL, "nginx:alpine"}, ty \in {NULL, "container", "static"},
        m \in MainModes, sh \in BOOLEAN, f \in BOOLEAN}

InitMainStates ==
    InitStates \cup {[dir |-> EstablishedDir(UnusableConfig), dockerfiles |-> {}]}

InitMain ==
    /\ \E s \in InitMainStates :
        /\ wranglerExists = s.dir.wranglerExists
        /\ config = s.dir.config
        /\ workerExists = s.dir.workerExists
        /\ worker = s.dir.worker
        /\ generated = s.dir.generated
        /\ files = s.dir.files
        /\ dockerfiles = s.dockerfiles
        /\ dockerfileText = s.dir.dockerfileText
    /\ env \in {NoEnv, UnreadableEnv}
    /\ pc = "idle"
    /\ call = NoCall
    /\ last = NoLast

\* the command has not been invoked yet
NotStarted == pc = "idle" /\ last.op = "none"

NextMain ==
    \/ NotStarted /\ \E c \in MainInputs : Run(c.target, c.flags, c.cfg)
    \/ \E proceed \in BOOLEAN : Answer(proceed)
    \/ \E code \in StepCodes : InstallExit(code)
    \/ \E code \in StepCodes : TypesExit(code)
    \/ \E code \in StepCodes : DeployExit(code)

SpecMain == InitMain /\ [][NextMain]_vars

(***************************************************************************)
(* Properties.                                                             *)
(***************************************************************************)
ClassNamesOf(entries) == {entries[i].class_name : i \in 1..Len(entries)}

UniqueByClass(entries) ==
    \A i, j \in 1..Len(entries) : entries[i].class_name = entries[j].class_name => i = j

\* number of registrations of className over all migrations
Registrations(migrations, className) ==
    Cardinality({p \in (1..Len(migrations)) \X (1..BATCH_CAPACITY + 2) :
                    /\ p[2] <= Len(migrations[p[1]].new_sqlite_classes)
                    /\ migrations[p[1]].new_sqlite_classes[p[2]] = className})

RegisteredClasses(migrations) ==
    UNION {Range(migrations[i].new_sqlite_classes) : i \in 1..Len(migrations)}

TaggedWith(migrations, tag, className) ==
    \E i \in 1..Len(migrations) :
        /\ migrations[i].tag = tag
        /\ Includes(migrations[i].new_sqlite_classes, className)

\* C1: scaffolding again with the detection and overrides of a scaffold that
\* just succeeded, on the directory it left, succeeds and leaves the
\* descriptor's resources, bindings and migrations as they are, for a detection
\* that carries an image reference or a build-descriptor.
C1_RescaffoldIdempotent ==
    (/\ pc = "idle"
     /\ last.op = "scaffold"
     /\ last.outcome = "ok"
     /\ (last.detection.image # NULL \/ last.detection.dockerfilePath # NULL))
    => LET r == Scaffold(Dir, Forced(last.overrides), last.detection, TRUE)
       IN  r.outcome = "ok" /\ r.dir.config = config

\* C2: in every descriptor reached by merges, each class name is registered at
\* most once over all migrations.
C2_ClassInAtMostOneMigration ==
    \A c \in RegisteredClasses(config.migrations) :
        Registrations(config.migrations, c) = 1

C2_Witness ==
    /\ last.op = "merge"
    /\ last.outcome = "ok"
    /\ last.registered
    /\ Len(config.migrations) = 2
    /\ Registrations(config.migrations, last.names.className) = 1

\* C3: merging a class that was in no migration of the descriptor succeeds and
\* leaves it registered exactly once, and merging it again with the same
\* arguments leaves the migrations list as it is.
C3_MergeOnceThenIdempotent ==
    (last.op = "merge" /\ ~last.registered)
    => /\ last.outcome = "ok"
       /\ Registrations(config.migrations, last.names.className) = 1
       /\ LET again == MergeWranglerConfig(config, last.names.className,
                           last.names.bindingName, last.path, last.names.maxInstances)
          IN  ~again.threw /\ again.config.migrations = config.migrations

\* C4: no two entries of the containers list have the same class name.
C4_ResourcesUniqueByClass == UniqueByClass(config.containers)

\* C5: no two entries of durable_objects.bindings have the same class name.
C5_BindingsUniqueByClass == UniqueByClass(config.bindings)

C5_Witness ==
    /\ last.op = "scaffold"
    /\ last.outcome = "ok"
    /\ last.registered
    /\ Len(config.bindings) = 2
    /\ last.names.className \in ClassNamesOf(config.bindings)

\* C6: a merge never appends a class to a migration that holds 3 or more
\* classes: a migration that has more than 3 classes after a step is one that
\* was there, unchanged, before it; and a migration it creates holds one class.
C6_BatchCapacity ==
    [][\A i \in 1..Len(config'.migrations) :
          Len(config'.migrations[i].new_sqlite_classes) > 3
          => /\ i <= Len(config.migrations)
             /\ config'.migrations[i] = config.migrations[i]]_vars

C6_Witness ==
    /\ last.op = "merge"
    /\ last.outcome = "ok"
    /\ ~last.registered
    /\ Len(config.migrations) = 2
    /\ Len(config.migrations[1].new_sqlite_classes) >= 3
    /\ config.migrations[2].new_sqlite_classes = <<last.names.className>>

\* C7: when the latest migration holds 3 classes and a class registered nowhere
\* is merged, the migrations list after the merge is the list before it followed
\* by one migration holding just that class, tagged "v" and the new length of
\* the list (v2 after a single migration).
C7_FullLatestGetsNewMigration ==
    [][(/\ last'.op = "merge"
        /\ Len(config.migrations) > 0
        /\ Len(config.migrations[Len(config.migrations)].new_sqlite_classes) = 3
        /\ Registrations(config.migrations, last'.names.className) = 0)
       => /\ Len(config'.migrations) = Len(config.migrations) + 1
          /\ SubSeq(config'.migrations, 1, Len(config.migrations)) = config.migrations
          /\ config'.migrations[Len(config'.migrations)].new_sqlite_classes
                 = <<last'.names.className>>
          /\ config'.migrations[Len(config'.migrations)].tag
                 = "v" \o ToString(Len(config.migrations) + 1)
          /\ (Len(config.migrations) = 1
                 => config'.migrations[2].tag = "v2")]_vars

C7_Witness ==
    /\ last.op = "merge"
    /\ ~last.registered
    /\ config.migrations =
           <<Mig("v1", <<"Legacy", "Old1", "Old2">>),
             Mig("v2", <<last.names.className>>)>>

\* C8: after a scaffold given an explicit migration tag T whose resolved class
\* was registered in no migration, the class is registered in a migration
\* tagged T.
C8_ExplicitTagUsed ==
    (/\ pc = "idle"
     /\ last.op = "scaffold"
     /\ last.outcome \in {"ok", "threw"}
     /\ last.overrides.migrationTag # NULL
     /\ ~last.registered)
    => /\ last.outcome = "ok"
       /\ TaggedWith(config.migrations, last.overrides.migrationTag,
                     last.names.className)

\* C9: a run on a directory that has the source stub or the descriptor, with
\* neither opts.force nor opts.noPrompt set, stops at the confirmation prompt
\* with the directory untouched; and when the answer is no, scaffold returns
\* null and the directory is as it was.
C9_ConfirmationGate ==
    [][/\ \A c \in CliInputs :
            (/\ ~ParseOpts(c.flags, c.cfg).force
             /\ ~ParseOpts(c.flags, c.cfg).noPrompt
             /\ (workerExists \/ wranglerExists)
             /\ Detect(c.target, dockerfiles, files, EnvImage(env)).found
             /\ Run(c.target, c.flags, c.cfg))
            => (pc' = "confirm" /\ Dir' = Dir /\ dockerfiles' = dockerfiles)
       /\ Answer(FALSE)
            => (last'.outcome = "declined" /\ Dir' = Dir /\ dockerfiles' = dockerfiles)]_vars

C9_Witness ==
    /\ pc = "idle"
    /\ last.op = "scaffold"
    /\ last.outcome = "declined"
    /\ (workerExists \/ wranglerExists)

\* C10: while a confirmation prompt is outstanding, the command line did not
\* carry --no-prompt (commander records the flag as prompt = false).
C10_NoPromptFlagSilences ==
    pc = "confirm" => call.opts.prompt

\* every registered detector of the last autoDetect call returned null
AllAbsent(detectors, arg) ==
    \A i \in 1..Len(detectors) :
        ~DetectBy(detectors[i], arg, dockerfiles, files, EnvImage(env)).found

\* C11: with opts.noPrompt set autoDetect never issues the list prompt; when
\* the two highest confidences are less than 0.1 apart it returns the first
\* entry of the ranking, no result has a higher confidence, and calling it
\* again with the same detectors on the same directory returns the same
\* detector.
C11_NearTieNonInteractive ==
    /\ pc = "choose" => ~call.noPrompt
    /\ (/\ last.op = "autodetect"
        /\ last.noPrompt
        /\ Len(last.results) > 1
        /\ last.results[1].confidence - last.results[2].confidence < 10)
       => /\ ~last.prompted
          /\ last.result = last.results[1]
          /\ \A i \in 1..Len(last.results) :
                 last.results[i].confidence <= last.result.confidence
          /\ AutoDetect(last.detectors, last.arg, dockerfiles, files, EnvImage(env),
                        [NoOpts EXCEPT !.noPrompt = TRUE]).result.detector
                 = last.result.detector

C11_Witness ==
    /\ last.op = "autodetect"
    /\ last.noPrompt
    /\ Len(last.results) = 2
    /\ last.results[1].confidence = last.results[2].confidence
    /\ last.result.detector = last.detectors[1].id

\* C12: detect returns a result exactly when the confidence is not 0; no
\* result that autoDetect ranks has confidence 0; autoDetect returns null
\* exactly when every registered detector returned null, and then the list
\* prompt was not issued.
C12_AbsentIffAllAbsent ==
    /\ last.op = "detect" => (last.result.found <=> last.result.confidence # 0)
    /\ pc = "choose" => ~AllAbsent(call.detectors, call.arg)
    /\ last.op = "autodetect"
       => /\ \A i \in 1..Len(last.results) : last.results[i].confidence # 0
          /\ ~last.result.found <=> AllAbsent(last.detectors, last.arg)
          /\ ~last.result.found => ~last.prompted

C12_Witness ==
    /\ last.op = "autodetect"
    /\ Len(last.detectors) = 2
    /\ ~last.noPrompt
    /\ ~last.result.found
    /\ AllAbsent(last.detectors, last.arg)

\* C13: detect called with a positional argument that contains ':' or '/' and
\* has no extension returns confidence 0.95 and metadata.image equal to the
\* argument, whatever else the directory holds.
C13_ArgumentImageWins ==
    (/\ last.op = "detect"
     /\ last.arg # NULL
     /\ IsImageReference(last.arg))
    => /\ last.result.found
       /\ last.result.confidence = 95
       /\ last.result.image = last.arg

\* className.endsWith('Container'), on the class names of the model
EndsWithContainer(className) ==
    /\ Parts[className][2] = 0
    /\ Parts[className][1] \in {"NginxContainer", "MyappContainer", "AppContainer",
                                "SiteContainer"}

\* what a scaffold of an image leaves in a directory that had no
\* build-descriptor, no source stub and no descriptor
FreshImageScaffoldResult ==
    /\ last'.outcome = "ok"
    /\ Includes(generated', "FROM " \o last'.detection.image)
    /\ AnalyzeDockerfile(generated') = 8080
    /\ wranglerExists'
    /\ Len(config'.containers) = 1
    /\ config'.containers[1].image = "./Dockerfile.generated"
    /\ EndsWithContainer(config'.containers[1].class_name)
    /\ Len(config'.bindings) = 1
    /\ config'.bindings[1].class_name = config'.containers[1].class_name
    /\ config'.migrations =
           <<[new_sqlite_classes |-> <<config'.containers[1].class_name>>, tag |-> "v1"]>>

IsExposeDirective(line) ==
    line \in {"EXPOSE 9000", "expose 3000", "EXPOSE $PORT", "EXPOSE  7000",
              "EXPOSE 80/tcp", "EXPOSE 8080"}

\* the integer value of the first white-space delimited token after the
\* keyword, DEFAULT_PORT when the token is not an integer
FirstTokenPort(line) ==
    CASE line = "EXPOSE 9000"   -> 9000
      [] line = "expose 3000"   -> 3000
      [] line = "EXPOSE 8080"   -> 8080
      [] line = "EXPOSE  7000"  -> 7000
      [] line = "EXPOSE 80/tcp" -> 80
      [] line = "EXPOSE $PORT"  -> DEFAULT_PORT

\* the port decided by the first expose directive alone
FirstExposePort(lines) ==
    LET idx == FirstIndex({i \in 1..Len(lines) : IsExposeDirective(lines[i])})
    IN  IF idx = 0 THEN DEFAULT_PORT ELSE FirstTokenPort(lines[idx])

\* C15: the port analyzeDockerfile reads from the build-descriptor is the one
\* its first expose directive decides (8080 without a directive or when its
\* token is no integer), and a source stub generated by a scaffold of that
\* build-descriptor has this port as its defaultPort.
C15_FirstExposeDecides ==
    (/\ pc = "idle"
     /\ last.op = "scaffold"
     /\ last.outcome = "ok"
     /\ last.detection.dockerfilePath # NULL
     /\ Len(worker) = 1)
    => /\ AnalyzeDockerfile(dockerfileText) = FirstExposePort(dockerfileText)
       /\ worker[1].port = FirstExposePort(dockerfileText)

\* C16: a scaffold whose descriptor merge throws leaves wrangler.jsonc as it
\* was, and the run ends there with the config-error exit status.
C16_FailedMergeWritesNothing ==
    [][(last'.op = "scaffold" /\ last'.outcome = "threw")
       => /\ wranglerExists' = wranglerExists
          /\ config' = config
          /\ pc' = "idle"
          /\ last'.exit = <<EXIT_CONFIG>>
          /\ last'.steps = <<>>]_vars

C16_Witness ==
    /\ pc = "idle"
    /\ last.op = "scaffold"
    /\ last.outcome = "threw"
    /\ last.exit = <<EXIT_CONFIG>>
    /\ wranglerExists
    /\ config = EmptyConfig

Deploying == pc \in {"install", "types", "deploy"}

\* C17: the four exit codes are pairwise distinct; a run exits with 0 when
\* scaffold succeeded and deploy was not requested or succeeded, with 2 when
\* scaffold succeeded and deploy failed, with 64 when autoDetect found nothing,
\* with 65 when scaffold threw; and no step of deploy, failing or not, changes
\* a file of the directory.
C17_ExitCodes ==
    [][/\ Cardinality({EXIT_SUCCESS, EXIT_PARTIAL, EXIT_USAGE, EXIT_CONFIG}) = 4
       /\ (/\ pc' = "idle" /\ last'.op = "scaffold" /\ last'.outcome = "ok"
           /\ (~last'.mode.ship \/ last'.shipSuccess = <<TRUE>>))
          => last'.exit = <<0>>
       /\ (/\ pc' = "idle" /\ last'.op = "scaffold" /\ last'.outcome = "ok"
           /\ last'.mode.ship /\ last'.shipSuccess = <<FALSE>>)
          => last'.exit = <<2>>
       /\ (/\ last'.op = "run" /\ last'.outcome = "nodetect"
           /\ (last'.mode.type = NULL \/ ~IsRegistered(last'.mode.type)))
          => last'.exit = <<64>>
       /\ (last'.op = "scaffold" /\ last'.outcome = "threw")
          => last'.exit = <<65>>
       /\ Deploying => (Dir' = Dir /\ dockerfiles' = dockerfiles /\ env' = env)]_vars

C17_Witness ==
    /\ pc = "idle"
    /\ last.op = "scaffold"
    /\ last.outcome = "ok"
    /\ last.shipSuccess = <<FALSE>>
    /\ last.exit = <<2>>
    /\ Len(last.steps) = 3
    /\ wranglerExists /\ workerExists
    /\ generated # <<>>

\* C18: a run with a forced type that is not registered, or whose detector
\* finds nothing, ends with exit status 64 without having called scaffold.
C18_ForcedTypeUsageError ==
    (/\ last.op \in {"run", "scaffold"}
     /\ last.mode.type # NULL
     /\ (~IsRegistered(last.mode.type) \/ last.outcome = "nodetect"))
    => /\ last.op = "run"
       /\ last.outcome = "nodetect"
       /\ last.exit = <<EXIT_USAGE>>

\* C19: a run whose confirmation was declined ends with an exit status other
\* than the config-error one, and no step of deploy is started.
C19_DeclineIsNotFailure ==
    (last.op = "scaffold" /\ last.outcome = "declined")
    => /\ pc = "idle"
       /\ last.steps = <<>>
       /\ last.exit # <<>>
       /\ last.exit # <<EXIT_CONFIG>>

StepCode(steps, step) ==
    {steps[i].code : i \in {j \in 1..Len(steps) : steps[j].step = step}}

\* C20: deploy resolves to true exactly when the dependency install and the
\* deploy step both exited with code 0; when it resolves to false the last
\* step that ran is a failed install or a failed deploy step, never the type
\* generation.
C20_DeployResult ==
    last.shipSuccess # <<>>
    => /\ last.shipSuccess = <<TRUE>>
             <=> (StepCode(last.steps, "install") = {0}
                  /\ StepCode(last.steps, "deploy") = {0})
       /\ last.shipSuccess = <<FALSE>>
             => /\ last.steps[Len(last.steps)].step \in {"install", "deploy"}
                /\ last.steps[Len(last.steps)].code # 0

C20_Witness ==
    /\ last.shipSuccess = <<TRUE>>
    /\ last.steps = <<Exited("install", 0), Exited("types", 1), Exited("deploy", 0)>>

StepOrder == <<"install", "types", "deploy">>

\* the external steps spawned so far: those that have exited, then the one
\* whose close event is awaited
Started == [i \in 1..(Len(last.steps) + (IF Deploying THEN 1 ELSE 0)) |->
               IF i <= Len(last.steps) THEN last.steps[i].step ELSE pc]

\* C21: the steps of deploy are started in the order install, types, deploy,
\* each at most once and each only when every earlier one has exited; type
\* generation is started only after an install that exited with code 0, and
\* after an install that exited non-zero nothing else is started.
C21_StrictSequence ==
    last.op = "scaffold"
    => /\ Len(Started) <= 3
       /\ \A i \in 1..Len(Started) : Started[i] = StepOrder[i]
       /\ Len(Started) - Len(last.steps) <= 1
       /\ Len(Started) >= 2 => last.steps[1] = Exited("install", 0)
       /\ (last.steps # <<>> /\ last.steps[1].code # 0)
             => (Started = <<"install">> /\ pc = "idle")

C21_Witness ==
    /\ pc = "deploy"
    /\ last.steps = <<Exited("install", 0), Exited("types", 1)>>

\* C22: a run with --detect or --plan, with or without --ship, ends without
\* calling scaffold or deploy: it changes no file of the directory, asks no
\* confirmation and starts no external step.
C22_DetectPlanReadOnly ==
    [][/\ pc' = "confirm" => ~(call'.opts.detect \/ call'.opts.plan)
       /\ (last'.op # "none" /\ (last'.mode.detect \/ last'.mode.plan))
          => /\ last'.op = "run"
             /\ pc' = "idle"
             /\ last'.steps = <<>>
             /\ last'.shipSuccess = <<>>
             /\ last'.exit # <<>>
             /\ Dir' = Dir
             /\ dockerfiles' = dockerfiles
             /\ env' = env]_vars

C22_Witness ==
    /\ last.op = "run"
    /\ last.outcome = "planned"
    /\ last.mode.plan /\ last.mode.ship
    /\ last.exit = <<EXIT_SUCCESS>>
    /\ last.detection.image = "nginx:alpine"
    /\ ~wranglerExists /\ ~workerExists /\ generated = <<>>

\* C23: a scaffold without an explicit tag, writing a descriptor that has no
\* migration yet (none on disk, or one on disk without migrations), completes
\* and leaves exactly one migration, holding the resolved class alone, tagged
\* "v10" if the directory was an established project before the run and "v1"
\* otherwise.
C23_FirstMigrationTag ==
    [][(/\ last'.op = "scaffold"
        /\ last'.outcome # "declined"
        /\ last'.overrides.migrationTag = NULL
        /\ config.usable
        /\ (~wranglerExists \/ config.migrations = <<>>))
       => /\ last'.outcome = "ok"
          /\ config'.migrations =
                <<Mig(GetSmartMigrationTag(Dir), <<last'.names.className>>)>>]_vars

TagsOf(migrations) == {migrations[i].tag : i \in 1..Len(migrations)}

\* C24: a merge that appends a migration gives it a tag that no migration of
\* the descriptor had, so the tags of the descriptor stay pairwise distinct.
C24_NewTagUnused ==
    [][Len(config'.migrations) > Len(config.migrations)
       => /\ config'.migrations[Len(config'.migrations)].tag \notin TagsOf(config.migrations)
          /\ Cardinality(TagsOf(config'.migrations)) = Len(config'.migrations)]_vars

\* the resources of the descriptor on disk whose source ref is the given one
SameSourceRef(ref) ==
    IF wranglerExists /\ config.usable
    THEN {i \in 1..Len(config.containers) : config.containers[i].image = ref}
    ELSE {}

\* C25: a scaffold resolves the class name of a resource of the descriptor
\* that has the source ref it writes, whatever the class override; when no
\* resource has that source ref, it resolves the class override if one is
\* given and otherwise a name used neither in the stub nor in the descriptor.
C25_ClassOfSameSourceRef ==
    [][(last'.op = "scaffold" /\ last'.outcome # "declined")
       => LET same == SameSourceRef(last'.path)
              className == last'.names.className
          IN  /\ same # {}
                    => \E i \in same : className = config.containers[i].class_name
              /\ same = {}
                    => IF last'.overrides.class # NULL
                       THEN className = last'.overrides.class
                       ELSE className \notin ExistingClasses(Dir)]_vars

\* C26: a merge of class C replaces in place the resource whose class name is
\* C if there is one and appends a resource otherwise; every resource of
\* another class keeps its content and its position, also when its source ref
\* is the one merged.
C26_ResourceUpsertByClass ==
    [][(last'.op = "merge" /\ last'.outcome = "ok")
       => LET old == config.containers
              new == config'.containers
              className == last'.names.className
              entry == NewContainer(className, last'.path, last'.names.maxInstances)
              idx == FirstIndex({i \in 1..Len(old) : old[i].class_name = className})
          IN  /\ new = IF idx > 0 THEN [old EXCEPT ![idx] = entry]
                                  ELSE Append(old, entry)
              /\ \A i \in 1..Len(old) :
                     old[i].class_name # className => (i <= Len(new) /\ new[i] = old[i])]_vars

\* the entries of a list that do not belong to the class
OfOtherClasses(entries, className) ==
    SelectSeq(entries, LAMBDA e : e.class_name # className)

WithoutClass(classes, className) == SelectSeq(classes, LAMBDA c : c # className)

IsPrefix(s, t) == Len(s) <= Len(t) /\ \A i \in 1..Len(s) : t[i] = s[i]

\* C27: a merge into an existing descriptor keeps every top-level key with its
\* value and its position, the bindings and the migration registrations of
\* the other classes, and the compatibility flags that were present, without
\* a duplicate, and the comments of the document.
C27_UnrelatedContentPreserved ==
    [][(last'.op = "merge" /\ last'.outcome = "ok")
       => LET className == last'.names.className
          IN  /\ IsPrefix(config.top, config'.top)
              /\ OfOtherClasses(config'.bindings, className)
                    = OfOtherClasses(config.bindings, className)
              /\ IsPrefix(config.migrations,
                          [i \in 1..Len(config'.migrations) |->
                              [config'.migrations[i] EXCEPT !.new_sqlite_classes =
                                  IF i <= Len(config.migrations)
                                     /\ ~Includes(config.migrations[i].new_sqlite_classes, className)
                                  THEN WithoutClass(@, className) ELSE @]])
              /\ IsPrefix(config.flags, config'.flags)
              /\ Cardinality(Range(config'.flags)) = Len(config'.flags)
              /\ config'.comments = config.comments]_vars

DefinesClass(workerClasses, className) ==
    \E i \in 1..Len(workerClasses) : workerClasses[i].class_name = className

\* C28: after a scaffold that completed the stub defines the resolved class;
\* a stub that existed is unchanged if it defined a class of exactly that
\* name, and otherwise has one class block of that name inserted before the
\* classes it had, which keep their order.
C28_StubDefinesResolvedClass ==
    [][(last'.op = "scaffold" /\ last'.outcome = "ok")
       => LET className == last'.names.className
          IN  /\ workerExists'
              /\ DefinesClass(worker', className)
              /\ workerExists
                    => IF DefinesClass(worker, className)
                       THEN worker' = worker
                       ELSE /\ Len(worker') = Len(worker) + 1
                            /\ worker'[1].class_name = className
                            /\ SubSeq(worker', 2, Len(worker')) = worker]_vars

\* the first name of the list that is in the set, NULL when none is
FirstPresent(names, present) ==
    IF \A i \in 1..Len(names) : names[i] \notin present THEN NULL
    ELSE names[CHOOSE i \in 1..Len(names) :
                   /\ names[i] \in present
                   /\ \A j \in 1..(i - 1) : names[j] \notin present]

\* the six signals in evaluation order on the directory of the state, for the
\* argument of the last detect call: whether it fires, its fixed score and
\* its indicator
SignalsOfLastCall ==
    <<[fired |-> last.arg # NULL /\ IsImageReference(last.arg), score |-> 95,
       text  |-> "Explicit image reference: " \o last.arg],
      [fired |-> dockerfiles \cap Range(DockerfileNames) # {}, score |-> 90,
       text  |-> "Found " \o FirstPresent(DockerfileNames, dockerfiles)],
      [fired |-> files \cap ComposeFiles # {}, score |-> 70,
       text  |-> "Found " \o FirstPresent(ComposeFileNames, files)],
      [fired |-> ".docker" \in files, score |-> 60, text |-> "Found .docker directory"],
      [fired |-> env.exists /\ env.imageLine # NULL, score |-> 80,
       text  |-> "Found IMAGE in .env: "
                 \o (IF env.imageLine = NULL THEN NULL ELSE StripQuotes(env.imageLine))],
      [fired |-> "manifest.json" \in files, score |-> 85,
       text  |-> "Found OCI manifest.json"]>>

FiredOfLastCall == SelectSeq(SignalsOfLastCall, LAMBDA s : s.fired)

\* C29: detect reports the greatest score among the signals that fired, one
\* indicator per fired signal in evaluation order (for the build-descriptor
\* signal that of the first existing name among Dockerfile, Containerfile,
\* dockerfile), and is absent exactly when no signal fired.
C29_ConfidenceAndIndicators ==
    last.op = "detect"
    => LET fired == FiredOfLastCall
       IN  /\ last.result.found <=> fired # <<>>
           /\ fired = <<>> => last.result.confidence = 0
           /\ fired # <<>>
                 => /\ \E i \in 1..Len(fired) : last.result.confidence = fired[i].score
                    /\ \A i \in 1..Len(fired) : last.result.confidence >= fired[i].score
           /\ last.indicators = [i \in 1..Len(fired) |-> fired[i].text]

C29_Witness ==
    /\ last.op = "detect"
    /\ last.arg = NULL
    /\ dockerfiles = {"Containerfile", "dockerfile"}
    /\ files = {"manifest.json", ".docker"}
    /\ env.imageLine = "'redis:7'"
    /\ last.result.confidence = 90
    /\ last.indicators = <<"Found Containerfile", "Found .docker directory",
                           "Found IMAGE in .env: redis:7", "Found OCI manifest.json">>

\* what each detector of the list reports on the directory of the state
ReportsOf(detectors, arg) ==
    [i \in 1..Len(detectors) |->
        DetectBy(detectors[i], arg, dockerfiles, files, EnvImage(env))]

FoundIn(reports) == {i \in 1..Len(reports) : reports[i].found}

\* the first registered among the results of greatest confidence
BestOf(reports) ==
    CHOOSE i \in FoundIn(reports) :
        \A j \in FoundIn(reports) :
            \/ reports[i].confidence > reports[j].confidence
            \/ (reports[i].confidence = reports[j].confidence /\ i <= j)

\* there is a result, and no second result within less than one tenth
\* (ten hundredths) of the best one
ClearWinner(reports) ==
    /\ FoundIn(reports) # {}
    /\ \A j \in FoundIn(reports) \ {BestOf(reports)} :
           reports[BestOf(reports)].confidence - reports[j].confidence >= 10

\* C30: when some detector reports a result and either it is the only one or
\* the two greatest confidences are at least 0.1 apart, autoDetect issues no
\* prompt and returns the result of greatest confidence, the first
\* registered among equals.
C30_ClearWinnerNoPrompt ==
    /\ pc = "choose" => ~ClearWinner(ReportsOf(call.detectors, call.arg))
    /\ (last.op = "autodetect" /\ ClearWinner(ReportsOf(last.detectors, last.arg)))
          => /\ ~last.prompted
             /\ last.result = ReportsOf(last.detectors, last.arg)
                                  [BestOf(ReportsOf(last.detectors, last.arg))]

\* C31: a detect call on a directory whose .env exists and cannot be read
\* does not raise, and returns what the other signals determine, the env
\* signal counting as not fired.
C31_EvidenceErrorTolerated ==
    (last.op \in {"detect", "detect-raised"} /\ ReadEnvFails(env))
    => /\ last.op = "detect"
       /\ last.result = DetectBy(ContainerDetector, last.arg, dockerfiles, files, NULL)

\* C32: a scaffold whose descriptor merge throws leaves every file of the
\* directory as it was: the stub, the generated build-descriptor, the
\* descriptor and the set of the other files.
C32_FailedScaffoldAllOrNothing ==
    [][(last'.op = "scaffold" /\ last'.outcome = "threw")
       => /\ workerExists' = workerExists
          /\ worker' = worker
          /\ generated' = generated
          /\ files' = files
          /\ wranglerExists' = wranglerExists
          /\ config' = config
          /\ dockerfiles' = dockerfiles]_vars

====
